---- MODULE Spec2Model ----
(***************************************************************************)
(* A model of the two Ansible modules of this repository:                  *)
(*   library/define_configuration.py  (the "ConfigStore")                  *)
(*   library/move.py                  (the "FileRelocator")                *)
(* Each behaviour follows one of the two programs through a bounded        *)
(* sequence of invocations against one filesystem.  The handlers are cut   *)
(* at their system calls, so that the states between two system calls are  *)
(* states of the model.                                                    *)
(***************************************************************************)
EXTENDS Integers, Sequences, FiniteSets, TLC

VARIABLES
    module,     \* the program this behaviour runs
    dirs,       \* directory path -> [exists, mode]
    files,      \* file path -> [exists, data, mode, owner, group]
    pc,         \* position of the running invocation in main()
    args,       \* module.params and module.check_mode of the invocation
    loc,        \* the locals of main()
    result,     \* what the invocation handed to exit_json / fail_json
    outcome,    \* "none" (running), "ok" (exit_json), "failed" (fail_json),
                \* "crashed" (uncaught exception)
    pre,        \* history: the filesystem when the invocation started
    prev,       \* history: the preceding invocation, when it had the same
                \* inputs (check_mode aside)
    calls       \* number of invocations started

vars == <<module, dirs, files, pc, args, loc, result, outcome, pre, prev, calls>>

-----------------------------------------------------------------------------
(* Bounds of the model *)

MaxCalls == 2

Keys == {"a", "c"}
Vals == {"1", "2"}
Blobs == {<<>>, <<88, 89, 90>>, <<65>>}
Modes == {384}
DirModes == {448}
None == "None"
OwnerGroups == {<<None, None>>, <<"root", None>>, <<"root", "root">>}

(* Values fixed by the program or its platform *)
ChunkSize == 8192           \* file_handle.read(8192)
NewFileMode == 420          \* open(.., 'w') creates with 0666 & ~umask(022)
NewDirMode == 493           \* os.makedirs without mode: 0777 & ~umask(022)
ProcessUser == "ansible"    \* the owner of what the process creates

ConfigFile == "/etc/ansible_local.json"
MovePaths == {"/d1/f", "/d2/g"}
Paths == {ConfigFile} \cup MovePaths

Parent(p) ==
    CASE p = ConfigFile -> "/etc"
      [] p = "/d1/f"    -> "/d1"
      [] OTHER          -> "/d2"

Dirs == {Parent(p) : p \in Paths}

-----------------------------------------------------------------------------
(* Python dicts: insertion-ordered sequences of <<key, value>> with       *)
(* distinct keys.                                                          *)

RECURSIVE DictIndex(_, _, _)
DictIndex(d, k, i) ==
    IF i > Len(d) THEN 0
    ELSE IF d[i][1] = k THEN i
    ELSE DictIndex(d, k, i + 1)

DictHas(d, k) == DictIndex(d, k, 1) # 0          \* k in d
DictGet(d, k) == d[DictIndex(d, k, 1)][2]        \* d[k]
DictKeys(d) == {d[i][1] : i \in 1..Len(d)}

\* d[k] = v : an existing key keeps its position, a new key is appended
DictSet(d, k, v) ==
    IF DictHas(d, k)
    THEN [d EXCEPT ![DictIndex(d, k, 1)] = <<k, v>>]
    ELSE Append(d, <<k, v>>)

\* d.update(e), on a copy of d
RECURSIVE DictUpdate(_, _)
DictUpdate(d, e) ==
    IF e = <<>> THEN d
    ELSE DictUpdate(DictSet(d, Head(e)[1], Head(e)[2]), Tail(e))

\* d == e for dicts: the same keys with the same values, in any order
DictEq(d, e) ==
    /\ DictKeys(d) = DictKeys(e)
    /\ \A k \in DictKeys(d) : DictGet(d, k) = DictGet(e, k)

\* All dicts over Keys and Vals, in every insertion order
OrderedDicts ==
    {d \in UNION {[1..n -> Keys \X Vals] : n \in 0..Cardinality(Keys)} :
        \A i, j \in 1..Len(d) : i # j => d[i][1] # d[j][1]}

\* The dicts a caller passes as content: its keys in the order of KeyOrder
KeyOrder == <<"a", "c">>
KeyRank(k) == CHOOSE i \in 1..Len(KeyOrder) : KeyOrder[i] = k
Contents ==
    {d \in OrderedDicts :
        \A i, j \in 1..Len(d) : i < j => KeyRank(d[i][1]) < KeyRank(d[j][1])}

-----------------------------------------------------------------------------
(* JSON text.  A file's data is [kind, body]:                              *)
(*   "object" : a JSON object, body its members in the order written       *)
(*   "empty"  : zero bytes (what open(.., 'w') leaves before the dump)     *)
(*   "bytes"  : raw bytes (the files FileRelocator moves)                  *)
(*   "array"  : a JSON document that is not an object                      *)
(*   "garbage": text that is not JSON                                      *)

\* json.dump(content, configfile)
JsonDump(d) == [kind |-> "object", body |-> d]

\* json.load succeeds
JsonParses(t) == t.kind \in {"object", "array"}

\* json.load succeeds and returns a dict
JsonIsObject(t) == t.kind = "object"

\* json.load(configfile): members are inserted in the order read
JsonLoad(t) == DictUpdate(<<>>, t.body)

EmptyText == [kind |-> "empty", body |-> <<>>]
ArrayText == [kind |-> "array", body |-> <<>>]
GarbageText == [kind |-> "garbage", body |-> <<>>]
Bytes(b) == [kind |-> "bytes", body |-> b]

-----------------------------------------------------------------------------
(* The filesystem *)

NoFile == [exists |-> FALSE, data |-> EmptyText, mode |-> 0,
           owner |-> None, group |-> None]
NoDir == [exists |-> FALSE, mode |-> 0]

Exists(fs, p) == fs[p].exists                    \* Path.exists()

NewFile(data) == [exists |-> TRUE, data |-> data, mode |-> NewFileMode,
                  owner |-> ProcessUser, group |-> ProcessUser]

\* os.makedirs(name, mode, exist_ok=True)
Makedirs(ds, d, mode) ==
    IF ds[d].exists THEN ds ELSE [ds EXCEPT ![d] = [exists |-> TRUE, mode |-> mode]]

\* open(path, 'w'): creates the file, or truncates it keeping its attributes
OpenForWrite(fs, p) ==
    IF fs[p].exists THEN [fs EXCEPT ![p].data = EmptyText]
    ELSE [fs EXCEPT ![p] = NewFile(EmptyText)]

\* (variant) a copy: dst becomes the file src is, and src stays
Replace_Copy(fs, src, dst) == [fs EXCEPT ![dst] = fs[src]]

\* os.replace(src, dst): dst becomes the file src was, src is gone.
\* Renaming a path onto itself changes nothing.
Replace(fs, src, dst) ==
    IF src = dst THEN fs
    ELSE [fs EXCEPT ![dst] = fs[src], ![src] = NoFile]

\* os.remove(path)
Remove(fs, p) == [fs EXCEPT ![p] = NoFile]

NoResult == [fields |-> {}, changed |-> FALSE, msg |-> <<>>, value |-> <<>>]
NoPrev == [valid |-> FALSE, check_mode |-> FALSE, outcome |-> "none",
           result |-> NoResult, existed |-> FALSE, destExisted |-> FALSE]
NoLoc == [changed |-> FALSE, msg |-> <<>>, content |-> <<>>, value |-> <<>>]

SameInputs(a, b) == [a EXCEPT !.check_mode = FALSE] = [b EXCEPT !.check_mode = FALSE]

\* What an invocation records when it starts: the filesystem it found, and
\* the invocation before it if that one had the same inputs (with what that
\* one found at its file, and at dest when it has one).
Begin(a, target, dest) ==
    /\ pc \in {"idle", "done"}
    /\ calls < MaxCalls
    /\ calls' = calls + 1
    /\ args' = a
    /\ pre' = [dirs |-> dirs, files |-> files]
    /\ prev' = IF pc = "done" /\ SameInputs(a, args)
               THEN [valid |-> TRUE, check_mode |-> args.check_mode,
                     outcome |-> outcome, result |-> result,
                     existed |-> Exists(pre.files, target),
                     destExisted |-> Exists(pre.files, dest)]
               ELSE NoPrev

-----------------------------------------------------------------------------
(* define_configuration.py *)

ConfigArgs ==
    {[file |-> ConfigFile, content |-> c, override |-> o, owner |-> og[1],
      group |-> og[2], dir_mode |-> dm, mode |-> m, check_mode |-> cm] :
        c \in Contents, o \in BOOLEAN, og \in OwnerGroups,
        dm \in DirModes, m \in Modes, cm \in BOOLEAN}

\* (variant) the loop that restores the existing values is left out
PreserveExisting_Skipped(changeset, before_data) == changeset

\* for name in before_data: if name in changeset:
\*     changeset[name] = before_data[name]
RECURSIVE PreserveExisting(_, _)
PreserveExisting(changeset, before_data) ==
    IF before_data = <<>> THEN changeset
    ELSE LET name == Head(before_data)[1]
             kept == IF DictHas(changeset, name)
                     THEN DictSet(changeset, name, Head(before_data)[2])
                     ELSE changeset
         IN  PreserveExisting(kept, Tail(before_data))

\* (variant) the desired values are taken whatever override says
Changeset_IgnoresOverride(content, before_data, override) == content

\* the changeset after the override branch
Changeset(content, before_data, override) ==
    IF ~override THEN PreserveExisting(content, before_data) ELSE content

\* (variant) the changeset alone is taken for the updated document
UpdatedData_ChangesetOnly(before_data, changeset) == changeset

\* updated_data = before_data.copy(); updated_data.update(changeset)
UpdatedData(before_data, changeset) == DictUpdate(before_data, changeset)

\* (variant) no reconciliation of an existing file reports a change
ChangedOnExisting_Never(override) == FALSE

\* (variant) every reconciliation of an existing file reports a change
ChangedOnExisting_Always(override) == TRUE

\* result['changed'] when the file exists
ChangedOnExisting(override) == override

\* result['changed'] when the file does not exist
ChangedOnCreate == TRUE

\* (variant) the test of check_mode is left out
WritesConfig_Always(check_mode) == TRUE

\* if not module.check_mode: write_config(...)
WritesConfig(check_mode) == ~check_mode

\* (variant) result['value'] keeps the changeset it was initialised with
ValueOnExisting_Changeset(changeset, updated_data) == changeset

\* result['value'] on the two paths
ValueOnCreate(changeset) == changeset
ValueOnExisting(changeset, updated_data) == updated_data

\* (variant) a file that cannot be read counts as a file that is not there
FileAbsent_OrUnreadable(fs, file) ==
    ~Exists(fs, file) \/ ~JsonIsObject(fs[file].data)

\* if not file.exists()
FileAbsent(fs, file) == ~Exists(fs, file)

\* read_config raises: json.load does not find JSON
ReadRaises(t) == ~JsonParses(t)

\* json.load returns a value that is no dict: the merge raises (a TypeError
\* in the loop over before_data, or an AttributeError at copy() or update())
MergeRaises(t) == JsonParses(t) /\ ~JsonIsObject(t)

\* main() up to the call of write_config
CsInvoke(a) ==
    /\ module = "define_configuration"
    /\ Begin(a, a.file, a.file)
    /\ UNCHANGED <<module, dirs, files>>
    /\ IF FileAbsent(files, a.file)
       THEN /\ loc' = [changed |-> ChangedOnCreate,
                       msg |-> <<"Configuration created">>,
                       content |-> a.content,
                       value |-> ValueOnCreate(a.content)]
            /\ pc' = IF WritesConfig(a.check_mode) THEN "cs_makedirs" ELSE "cs_exit"
            /\ result' = NoResult
            /\ outcome' = "none"
       ELSE IF ReadRaises(files[a.file].data) \/ MergeRaises(files[a.file].data)
       THEN \* an uncaught exception, before anything is written
            /\ loc' = NoLoc
            /\ pc' = "done"
            /\ result' = NoResult
            /\ outcome' = "crashed"
       ELSE LET before_data == JsonLoad(files[a.file].data)
                changeset == Changeset(a.content, before_data, a.override)
                updated_data == UpdatedData(before_data, changeset)
            IN  /\ loc' = [changed |-> ChangedOnExisting(a.override),
                           msg |-> IF a.override THEN <<"Configuration updated">>
                                   ELSE <<"Configuration read">>,
                           content |-> updated_data,
                           value |-> ValueOnExisting(changeset, updated_data)]
                /\ pc' = IF WritesConfig(a.check_mode) THEN "cs_makedirs"
                         ELSE "cs_exit"
                /\ result' = NoResult
                /\ outcome' = "none"

\* write_config: os.makedirs(name=str(file.parent), mode=dir_mode, exist_ok=True)
CsMakedirs ==
    /\ pc = "cs_makedirs"
    /\ dirs' = Makedirs(dirs, Parent(args.file), args.dir_mode)
    /\ pc' = "cs_open"
    /\ UNCHANGED <<module, files, args, loc, result, outcome, pre, prev, calls>>

\* write_config: open(str(file), 'w')
CsOpen ==
    /\ pc = "cs_open"
    /\ files' = OpenForWrite(files, args.file)
    /\ pc' = "cs_dump"
    /\ UNCHANGED <<module, dirs, args, loc, result, outcome, pre, prev, calls>>

\* write_config: json.dump(content, configfile), and the close of the file
CsDump ==
    /\ pc = "cs_dump"
    /\ files' = [files EXCEPT ![args.file].data = JsonDump(loc.content)]
    /\ pc' = "cs_chmod"
    /\ UNCHANGED <<module, dirs, args, loc, result, outcome, pre, prev, calls>>

\* write_config: os.chmod(str(file), mode)
CsChmod ==
    /\ pc = "cs_chmod"
    /\ files' = [files EXCEPT ![args.file].mode = args.mode]
    /\ pc' = IF args.owner # None /\ args.group # None THEN "cs_chown" ELSE "cs_exit"
    /\ UNCHANGED <<module, dirs, args, loc, result, outcome, pre, prev, calls>>

\* write_config: shutil.chown(str(file), owner, group)
CsChown ==
    /\ pc = "cs_chown"
    /\ files' = [files EXCEPT ![args.file].owner = args.owner,
                              ![args.file].group = args.group]
    /\ pc' = "cs_exit"
    /\ UNCHANGED <<module, dirs, args, loc, result, outcome, pre, prev, calls>>

\* module.exit_json(**result)
CsExit ==
    /\ pc = "cs_exit"
    /\ result' = [fields |-> {"changed", "msg", "diff", "value", "proposed"},
                  changed |-> loc.changed, msg |-> loc.msg, value |-> loc.value]
    /\ outcome' = "ok"
    /\ pc' = "done"
    /\ UNCHANGED <<module, dirs, files, args, loc, pre, prev, calls>>

-----------------------------------------------------------------------------
(* move.py *)

MoveArgs ==
    {[src |-> s, dest |-> d, validate |-> v, check_mode |-> cm] :
        s \in MovePaths, d \in MovePaths, v \in BOOLEAN, cm \in BOOLEAN}

Min(m, n) == IF m < n THEN m ELSE n

\* the loop of checksum(): read chunks of 8192 bytes until none is left and
\* feed each to the hash.  The digest is modelled as the bytes fed to it
\* (blake2b taken to be collision-free).
RECURSIVE HashChunks(_, _)
HashChunks(unread, file_hash) ==
    LET chunk == SubSeq(unread, 1, Min(ChunkSize, Len(unread)))
    IN  IF chunk = <<>> THEN file_hash
        ELSE HashChunks(SubSeq(unread, Len(chunk) + 1, Len(unread)),
                        file_hash \o chunk)

checksum(fs, file) == HashChunks(fs[file].data.body, <<>>)

\* template % values, for a template of literal pieces and "%s" slots:
\* [ok, text]; not ok is Python's TypeError when slots and values differ
\* in number
RECURSIVE Fill(_, _)
Fill(template, values) ==
    IF template = <<>> THEN <<>>
    ELSE IF Head(template) = "%s"
         THEN <<Head(values)>> \o Fill(Tail(template), Tail(values))
         ELSE <<Head(template)>> \o Fill(Tail(template), values)

Format(template, values) ==
    LET slots == Cardinality({i \in 1..Len(template) : template[i] = "%s"})
    IN  IF slots = Len(values)
        THEN [ok |-> TRUE, text |-> Fill(template, values)]
        ELSE [ok |-> FALSE, text |-> <<"TypeError">>]

\* 'Could not move file %s to %s: %s'
MoveFailedTemplate == <<"Could not move file ", "%s", " to ", "%s", ": ", "%s">>
\* 'Could not remove src file %s: %s'
RemoveFailedTemplate == <<"Could not remove src file ", "%s", ": ", "%s">>

OSError == "OSError"

\* the branch that compares the two files
Compares(fs, a) == Exists(fs, a.src) /\ Exists(fs, a.dest) /\ a.validate

\* (variant) changed never compares the two files
MvChanged_ExistenceOnly(fs, a) == Exists(fs, a.src) /\ ~Exists(fs, a.dest)

\* changed, as main() computes it
MvChanged(fs, a) ==
    IF Compares(fs, a)
    THEN checksum(fs, a.src) # checksum(fs, a.dest)
    ELSE Exists(fs, a.src) /\ ~Exists(fs, a.dest)

\* msg, as main() computes it
MvMsg(fs, a) ==
    IF Compares(fs, a)
    THEN IF MvChanged(fs, a)
         THEN <<"File exists, but is different, moving src to dest">>
         ELSE <<"File exists and src and dest are the same, removing source">>
    ELSE IF MvChanged(fs, a)
         THEN <<"Destination file doesnt exists, moving src to dest">>
         ELSE <<"File already moved">>

\* (variant) check mode does not end the invocation early
ExitsInCheckMode_Never(check_mode) == FALSE

\* if module.check_mode: module.exit_json(changed=changed)
ExitsInCheckMode(check_mode) == check_mode

\* (variant) the source is removed whether or not validate is set
RemovesSource_Always(fs, a) == Exists(fs, a.src)

\* if (validate and src_file.exists()), on the branch of changed = False
RemovesSource(fs, a) == a.validate /\ Exists(fs, a.src)

\* main() up to the first change of the filesystem
MvInvoke(a) ==
    /\ module = "move"
    /\ Begin(a, a.src, a.dest)
    /\ UNCHANGED <<module, dirs, files>>
    /\ loc' = [changed |-> MvChanged(files, a), msg |-> MvMsg(files, a),
               content |-> <<>>, value |-> <<>>]
    /\ IF ExitsInCheckMode(a.check_mode)
       THEN /\ result' = [fields |-> {"changed"}, changed |-> MvChanged(files, a),
                          msg |-> <<>>, value |-> <<>>]
            /\ outcome' = "ok"
            /\ pc' = "done"
       ELSE /\ result' = NoResult
            /\ outcome' = "none"
            /\ pc' = IF MvChanged(files, a) THEN "mv_makedirs"
                     ELSE IF RemovesSource(files, a) THEN "mv_remove"
                     ELSE "mv_exit"

\* os.makedirs(name=str(dest_file.parent), exist_ok=True)
MvMakedirs ==
    /\ pc = "mv_makedirs"
    /\ dirs' = Makedirs(dirs, Parent(args.dest), NewDirMode)
    /\ pc' = "mv_replace"
    /\ UNCHANGED <<module, files, args, loc, result, outcome, pre, prev, calls>>

\* module.fail_json(msg=...), or the exception the formatting of msg raises
FailWith(formatted) ==
    /\ pc' = "done"
    /\ IF formatted.ok
       THEN /\ result' = [fields |-> {"failed", "msg"}, changed |-> FALSE,
                          msg |-> formatted.text, value |-> <<>>]
            /\ outcome' = "failed"
       ELSE /\ result' = NoResult
            /\ outcome' = "crashed"

\* (variant) the move as a copy followed by a delete: dest is opened for
\* writing, and in a later step filled from src, which is then removed
PartialText == [kind |-> "partial", body |-> <<>>]
MvReplace_CopyThenDelete ==
    /\ pc = "mv_replace"
    /\ IF ~(Exists(files, args.dest) /\ files[args.dest].data = PartialText)
       THEN /\ files' = [files EXCEPT ![args.dest] = NewFile(PartialText)]
            /\ pc' = pc
       ELSE /\ files' = [files EXCEPT ![args.dest].data = files[args.src].data,
                                     ![args.src] = NoFile]
            /\ pc' = "mv_exit"
    /\ UNCHANGED <<module, dirs, args, loc, result, outcome, pre, prev, calls>>

\* os.replace(src_file, dest_file): it succeeds, or it raises
MvReplace ==
    /\ pc = "mv_replace"
    /\ \/ /\ files' = Replace(files, args.src, args.dest)
          /\ pc' = "mv_exit"
          /\ UNCHANGED <<result, outcome>>
       \/ /\ files' = files
          /\ FailWith(Format(MoveFailedTemplate, <<args.src, args.dest, OSError>>))
    /\ UNCHANGED <<module, dirs, args, loc, pre, prev, calls>>

\* os.remove(src_file): it succeeds, or it raises
MvRemove ==
    /\ pc = "mv_remove"
    /\ \/ /\ files' = Remove(files, args.src)
          /\ pc' = "mv_exit"
          /\ UNCHANGED <<result, outcome>>
       \/ /\ files' = files
          /\ FailWith(Format(RemoveFailedTemplate, <<args.src, args.dest, OSError>>))
    /\ UNCHANGED <<module, dirs, args, loc, pre, prev, calls>>

\* module.exit_json(changed=changed, msg=msg)
MvExit ==
    /\ pc = "mv_exit"
    /\ result' = [fields |-> {"changed", "msg"}, changed |-> loc.changed,
                  msg |-> loc.msg, value |-> <<>>]
    /\ outcome' = "ok"
    /\ pc' = "done"
    /\ UNCHANGED <<module, dirs, files, args, loc, pre, prev, calls>>

-----------------------------------------------------------------------------
(* The states an invocation can find *)

FileAttrs == {<<NewFileMode, ProcessUser, ProcessUser>>}

ConfigTexts == {JsonDump(d) : d \in OrderedDicts} \cup {ArrayText, GarbageText}

ConfigFiles ==
    {NoFile} \cup
    {[exists |-> TRUE, data |-> t, mode |-> at[1], owner |-> at[2],
      group |-> at[3]] : t \in ConfigTexts, at \in FileAttrs}

NoArgs == [check_mode |-> FALSE]

InitConfig ==
    /\ module = "define_configuration"
    /\ \E hasDir \in BOOLEAN, f \in ConfigFiles :
        /\ f.exists => hasDir
        /\ dirs = [d \in Dirs |-> IF d = Parent(ConfigFile) /\ hasDir
                                  THEN [exists |-> TRUE, mode |-> NewDirMode]
                                  ELSE NoDir]
        /\ files = [p \in Paths |-> IF p = ConfigFile THEN f ELSE NoFile]

MoveFiles == {NoFile} \cup {NewFile(Bytes(b)) : b \in Blobs}

InitMove ==
    /\ module = "move"
    /\ \E hasDir \in [MovePaths -> BOOLEAN], f \in [MovePaths -> MoveFiles] :
        /\ \A p \in MovePaths : f[p].exists => hasDir[p]
        /\ dirs = [d \in Dirs |->
                     IF \E p \in MovePaths : d = Parent(p) /\ hasDir[p]
                     THEN [exists |-> TRUE, mode |-> NewDirMode]
                     ELSE NoDir]
        /\ files = [p \in Paths |-> IF p \in MovePaths THEN f[p] ELSE NoFile]

Init ==
    /\ (InitConfig \/ InitMove)
    /\ pc = "idle"
    /\ args = NoArgs
    /\ loc = NoLoc
    /\ result = NoResult
    /\ outcome = "none"
    /\ pre = [dirs |-> dirs, files |-> files]
    /\ prev = NoPrev
    /\ calls = 0

Next ==
    \/ \E a \in ConfigArgs : CsInvoke(a)
    \/ CsMakedirs
    \/ CsOpen
    \/ CsDump
    \/ CsChmod
    \/ CsChown
    \/ CsExit
    \/ \E a \in MoveArgs : MvInvoke(a)
    \/ MvMakedirs
    \/ MvReplace
    \/ MvRemove
    \/ MvExit

Spec == Init /\ [][Next]_vars

-----------------------------------------------------------------------------
(* Vocabulary of the properties *)

Cs == module = "define_configuration"
Mv == module = "move"

\* the invocation has ended with exit_json
Succeeded == pc = "done" /\ outcome = "ok"

\* ... and it was not a dry run
Applied == Succeeded /\ ~args.check_mode

\* the invocation before this one had the same inputs and ended with exit_json
Repeats == prev.valid /\ prev.outcome = "ok"

\* the configuration document, read again from the file
Reread(fs) == JsonLoad(fs[ConfigFile].data)

\* the document the invocation found
Before == JsonLoad(pre.files[ConfigFile].data)

\* the file the invocation found at a path held the same bytes as ...
SameContent(p, q) == pre.files[p].data = pre.files[q].data

-----------------------------------------------------------------------------
(* C1 *)

\* C1 as stated: of two successive non-dry-run reconciliations with identical
\* inputs, the first reports changed=true when it creates the file, the
\* second reports changed=false, and both return the same value.
C1_IdempotenceAsStated ==
    (Cs /\ Applied /\ Repeats /\ ~prev.check_mode) =>
        /\ ~prev.existed => prev.result.changed
        /\ ~result.changed
        /\ DictEq(result.value, prev.result.value)

\* C1 amended: of two successive non-dry-run reconciliations with identical
\* inputs, the first reports changed=true when it creates the file, the
\* second reports changed=false when override is false and changed=true when
\* override is true, and both return the same value.
C1_Idempotence ==
    (Cs /\ Applied /\ Repeats /\ ~prev.check_mode) =>
        /\ ~prev.existed => prev.result.changed
        /\ result.changed = args.override
        /\ DictEq(result.value, prev.result.value)

\* a second run with override=false, after a first run that created the file
\* with two keys
C1_Witness ==
    /\ Cs /\ Applied /\ Repeats /\ ~prev.check_mode
    /\ ~prev.existed /\ prev.result.changed
    /\ ~args.override /\ ~result.changed
    /\ Len(args.content) = 2

-----------------------------------------------------------------------------
(* C2 *)

\* C2: merge precedence.  When the file exists, every key present in both the
\* existing document and the desired content ends with the existing value if
\* override=false and with the desired value if override=true, in the value
\* returned and (when not a dry run) in the file written.
C2_MergePrecedence ==
    (Cs /\ Succeeded /\ Exists(pre.files, ConfigFile)) =>
        \A k \in DictKeys(Before) \cap DictKeys(args.content) :
            LET final == IF args.override THEN DictGet(args.content, k)
                         ELSE DictGet(Before, k)
            IN  /\ DictHas(result.value, k)
                /\ DictGet(result.value, k) = final
                /\ ~args.check_mode =>
                    /\ DictHas(Reread(files), k)
                    /\ DictGet(Reread(files), k) = final

\* override=false, and a key whose desired value differs from its existing one
C2_Witness ==
    /\ Cs /\ Applied /\ Exists(pre.files, ConfigFile)
    /\ ~args.override
    /\ \E k \in DictKeys(Before) \cap DictKeys(args.content) :
        DictGet(Before, k) # DictGet(args.content, k)

-----------------------------------------------------------------------------
(* C3 *)

\* C3: key addition.  When the file exists, every key of the desired content
\* that the existing document lacks is in the final document with the desired
\* value, for both values of override, and every key of the existing document
\* that the desired content lacks keeps its value.
C3_KeyAddition ==
    (Cs /\ Succeeded /\ Exists(pre.files, ConfigFile)) =>
        /\ \A k \in DictKeys(args.content) \ DictKeys(Before) :
            /\ DictHas(result.value, k)
            /\ DictGet(result.value, k) = DictGet(args.content, k)
            /\ ~args.check_mode =>
                /\ DictHas(Reread(files), k)
                /\ DictGet(Reread(files), k) = DictGet(args.content, k)
        /\ \A k \in DictKeys(Before) \ DictKeys(args.content) :
            /\ DictHas(result.value, k)
            /\ DictGet(result.value, k) = DictGet(Before, k)
            /\ ~args.check_mode =>
                /\ DictHas(Reread(files), k)
                /\ DictGet(Reread(files), k) = DictGet(Before, k)

\* the desired content brings a new key to a document that has another one
C3_Witness ==
    /\ Cs /\ Applied /\ Exists(pre.files, ConfigFile)
    /\ DictKeys(args.content) \ DictKeys(Before) # {}
    /\ DictKeys(Before) \ DictKeys(args.content) # {}

-----------------------------------------------------------------------------
(* C4 *)

\* C4: a dry run never mutates.  From its start to its end, an invocation of
\* either module with check_mode set leaves every directory and every file
\* (existence, content, mode, owner, group) as it found it.
C4_DryRunNeverMutates ==
    (calls > 0 /\ args.check_mode) => (dirs = pre.dirs /\ files = pre.files)

\* a dry run has ended and reported a change it did not make
C4_Witness ==
    /\ Succeeded /\ args.check_mode /\ result.changed
    /\ Cs
    /\ ~Exists(files, ConfigFile)

-----------------------------------------------------------------------------
(* C5 *)

\* C5: a dry run predicts changed.  The changed a non-dry-run invocation
\* reports equals the changed reported by the dry run with identical inputs
\* that ran just before it, for both modules.
C5_DryRunPredictsChanged ==
    (Applied /\ Repeats /\ prev.check_mode) =>
        result.changed = prev.result.changed

\* a move that its dry run announced
C5_Witness ==
    /\ Mv /\ Applied /\ Repeats /\ prev.check_mode
    /\ result.changed /\ prev.result.changed

-----------------------------------------------------------------------------
(* C6 *)

\* C6: FileRelocator idempotence.  With the source present and the destination
\* absent, a non-dry-run call reports changed=true and leaves the source
\* absent and the destination holding the source's former content; a second
\* call with the same arguments reports changed=false and leaves the
\* destination as it is, for both values of validate.
C6_MoveIdempotence ==
    /\ (Mv /\ Applied /\ Exists(pre.files, args.src)
           /\ ~Exists(pre.files, args.dest)) =>
        /\ result.changed
        /\ ~Exists(files, args.src)
        /\ Exists(files, args.dest)
        /\ files[args.dest].data = pre.files[args.src].data
    /\ (Mv /\ Applied /\ Repeats /\ ~prev.check_mode
           /\ prev.existed /\ ~prev.destExisted) =>
        /\ ~result.changed
        /\ Exists(files, args.dest)
        /\ files[args.dest] = pre.files[args.dest]

\* the second call, after a first one that moved a file of three bytes
C6_Witness ==
    /\ Mv /\ Applied /\ Repeats /\ ~prev.check_mode
    /\ prev.existed /\ ~prev.destExisted /\ prev.result.changed
    /\ ~result.changed
    /\ Len(files[args.dest].data.body) = 3

-----------------------------------------------------------------------------
(* C7 *)

\* C7: content divergence under validate.  When source and destination both
\* exist with different content and validate=true, a non-dry-run call reports
\* changed=true, the destination ends with the source's content and the
\* source no longer exists.
C7_Divergence ==
    (Mv /\ Applied /\ args.validate
        /\ Exists(pre.files, args.src) /\ Exists(pre.files, args.dest)
        /\ ~SameContent(args.src, args.dest)) =>
        /\ result.changed
        /\ Exists(files, args.dest)
        /\ files[args.dest].data = pre.files[args.src].data
        /\ ~Exists(files, args.src)

C7_Witness ==
    /\ Mv /\ Applied /\ args.validate
    /\ Exists(pre.files, args.src) /\ Exists(pre.files, args.dest)
    /\ ~SameContent(args.src, args.dest)
    /\ result.changed

-----------------------------------------------------------------------------
(* C8 *)

\* C8: content equality under validate.  When source and destination both
\* exist with identical content and validate=true, a non-dry-run call reports
\* changed=false, the source is removed, and the destination still exists
\* with its content unchanged.
C8_Equality ==
    (Mv /\ Applied /\ args.validate
        /\ Exists(pre.files, args.src) /\ Exists(pre.files, args.dest)
        /\ SameContent(args.src, args.dest)) =>
        /\ ~result.changed
        /\ ~Exists(files, args.src)
        /\ Exists(files, args.dest)
        /\ files[args.dest].data = pre.files[args.dest].data

\* The same, of two different paths: this much the code does.
EqualityOfDistinctPaths ==
    (Mv /\ Applied /\ args.validate /\ args.src # args.dest
        /\ Exists(pre.files, args.src) /\ Exists(pre.files, args.dest)
        /\ SameContent(args.src, args.dest)) =>
        /\ ~result.changed
        /\ ~Exists(files, args.src)
        /\ files[args.dest] = pre.files[args.dest]

-----------------------------------------------------------------------------
(* C9 *)

\* C9: the file pair invariant under validate=true.  Whenever the source
\* exists (the destination absent, or present with equal or different
\* content), after a successful non-dry-run call with validate=true the source
\* path does not exist and the destination path exists and holds the content
\* the source held before the call.
C9_PairInvariant ==
    (Mv /\ Applied /\ args.validate /\ Exists(pre.files, args.src)) =>
        /\ ~Exists(files, args.src)
        /\ Exists(files, args.dest)
        /\ files[args.dest].data = pre.files[args.src].data

\* The same, of two different paths: this much the code does.
PairInvariantOfDistinctPaths ==
    (Mv /\ Applied /\ args.validate /\ args.src # args.dest
        /\ Exists(pre.files, args.src)) =>
        /\ ~Exists(files, args.src)
        /\ Exists(files, args.dest)
        /\ files[args.dest].data = pre.files[args.src].data

-----------------------------------------------------------------------------
(* C10 *)

\* C10: the value returned is the final document.  After every successful
\* non-dry-run reconciliation the file, read again, holds exactly the mapping
\* returned as value; and the value a dry run returns is the mapping the
\* non-dry-run invocation with identical inputs then writes.
C10_ValueIsFinalDocument ==
    /\ (Cs /\ Applied) =>
        /\ Exists(files, ConfigFile)
        /\ JsonIsObject(files[ConfigFile].data)
        /\ DictEq(Reread(files), result.value)
    /\ (Cs /\ Applied /\ Repeats /\ prev.check_mode) =>
        DictEq(prev.result.value, Reread(files))

\* a merge that its dry run announced: the document keeps a key the desired
\* content does not name
C10_Witness ==
    /\ Cs /\ Applied /\ Repeats /\ prev.check_mode
    /\ Exists(pre.files, ConfigFile)
    /\ DictKeys(Before) \ DictKeys(args.content) # {}
    /\ DictKeys(args.content) \ DictKeys(Before) # {}

-----------------------------------------------------------------------------
(* C11 *)

\* the file the invocation found was absent or held a JSON object
FoundValid ==
    Exists(pre.files, ConfigFile) => JsonIsObject(pre.files[ConfigFile].data)

\* C11: the configuration file, if present, holds a complete JSON object in
\* every reachable state: from an absent file or a valid document, at every
\* point of every reconciliation, the states between the system calls of a
\* write included, the file is absent or holds a full JSON object.
C11_AlwaysValidJson ==
    (Cs /\ FoundValid) =>
        (Exists(files, ConfigFile) => JsonIsObject(files[ConfigFile].data))

-----------------------------------------------------------------------------
(* C14 *)

\* C14: parse failure.  When the file exists and does not hold a JSON object,
\* the invocation ends in an uncaught error with no result, it never enters
\* the path that creates the file, and the file is left as it was.
C14_ParseFailure ==
    (Cs /\ calls > 0 /\ ~FoundValid) =>
        /\ pc = "done"
        /\ outcome = "crashed"
        /\ result.fields = {}
        /\ loc.msg # <<"Configuration created">>
        /\ files = pre.files
        /\ dirs = pre.dirs

\* a non-dry-run invocation has met a file that is not JSON
C14_Witness ==
    /\ Cs /\ calls > 0 /\ pc = "done"
    /\ pre.files[ConfigFile].data = GarbageText
    /\ ~args.check_mode
    /\ outcome = "crashed"

-----------------------------------------------------------------------------
(* C12 *)

\* the pieces of a message
Pieces(msg) == {msg[i] : i \in 1..Len(msg)}

\* the invocation ended in fail_json with a message that names both paths
\* and the cause
ReportedFailure ==
    /\ outcome = "failed"
    /\ {"failed", "msg"} \subseteq result.fields
    /\ {args.src, args.dest, OSError} \subseteq Pieces(result.msg)

\* C12: failure reporting.  When os.replace fails, or when os.remove fails,
\* the invocation ends as a reported module failure whose message names the
\* source path and the destination path and includes the cause.
C12_FailureReporting ==
    (Mv /\ pc = "done" /\ outcome \in {"failed", "crashed"}) => ReportedFailure

\* The same of os.replace alone: this much the code does.
RenameFailureReported ==
    (Mv /\ pc = "done" /\ outcome \in {"failed", "crashed"} /\ loc.changed) =>
        ReportedFailure

-----------------------------------------------------------------------------
(* C13 *)

\* C13: result shape.  Every successful invocation of FileRelocator, dry run
\* or not and whatever it decided, returns a result that holds both changed
\* and msg.
C13_ResultShape ==
    (Mv /\ Succeeded) => {"changed", "msg"} \subseteq result.fields

\* The same of the invocations that are no dry run: this much the code does.
ResultShapeOutsideCheckMode ==
    (Mv /\ Applied) => {"changed", "msg"} \subseteq result.fields

-----------------------------------------------------------------------------
(* C15 *)

\* the invocation has decided to move src onto dest, and is no dry run
Moving == Mv /\ calls > 0 /\ ~args.check_mode /\ loc.changed

\* C15: atomic move.  In every state of a move, from the decision to the end
\* of the invocation (a failed os.replace included), the destination path is
\* as the invocation found it (absent, or the old file) or it is the complete
\* file the source was; it is never anything else.
C15_AtomicMove ==
    Moving =>
        \/ files[args.dest] = pre.files[args.dest]
        \/ files[args.dest] = pre.files[args.src]

\* os.replace has just put the source over a destination of other content
C15_Witness ==
    /\ Moving /\ pc = "mv_exit"
    /\ Exists(pre.files, args.dest)
    /\ files[args.dest] = pre.files[args.src]
    /\ files[args.dest] # pre.files[args.dest]

-----------------------------------------------------------------------------
(* C16 *)

\* the rows of the decision table that do nothing
NoOpRow ==
    \/ ~Exists(pre.files, args.src)
    \/ /\ Exists(pre.files, args.src)
       /\ Exists(pre.files, args.dest)
       /\ ~args.validate

\* C16: the rows that do nothing.  When the source is absent (any validate,
\* the destination present or absent), or when source and destination both
\* exist and validate=false, the call reports changed=false and leaves both
\* paths, and the rest of the filesystem, exactly as they were.
C16_NoOpRows ==
    (Mv /\ Succeeded /\ NoOpRow) =>
        /\ ~result.changed
        /\ files[args.src] = pre.files[args.src]
        /\ files[args.dest] = pre.files[args.dest]
        /\ files = pre.files
        /\ dirs = pre.dirs

\* two files of different content at two paths, and validate=false
C16_Witness ==
    /\ Mv /\ Applied /\ ~args.validate
    /\ args.src # args.dest
    /\ Exists(pre.files, args.src) /\ Exists(pre.files, args.dest)
    /\ ~SameContent(args.src, args.dest)
    /\ Exists(files, args.src)

-----------------------------------------------------------------------------
(* C17 *)

\* C17: changed tracks override, not the content of the file.  changed is
\* true exactly when the file was absent or override=true; and with the file
\* present and override=false, a non-dry-run reconciliation whose content
\* brings new keys writes the enlarged document and still reports
\* changed=false with the message 'Configuration read'.
C17_ChangedTracksOverride ==
    /\ (Cs /\ Succeeded) =>
        (result.changed <=> (~Exists(pre.files, ConfigFile) \/ args.override))
    /\ (Cs /\ Applied /\ Exists(pre.files, ConfigFile) /\ ~args.override
           /\ DictKeys(args.content) \ DictKeys(Before) # {}) =>
        /\ ~result.changed
        /\ result.msg = <<"Configuration read">>
        /\ ~DictEq(Reread(files), Before)
        /\ DictKeys(Reread(files)) = DictKeys(Before) \cup DictKeys(args.content)

\* the file on disk has grown by a key and no change is reported
C17_Witness ==
    /\ Cs /\ Applied /\ Exists(pre.files, ConfigFile) /\ ~args.override
    /\ ~result.changed
    /\ Len(Reread(files)) > Len(Before)

-----------------------------------------------------------------------------
(* C18 *)

\* C18 as stated: when the file exists and the desired content is empty, for
\* both values of override the mapping on disk after the call equals the
\* mapping before it and changed=false is reported.
C18_EmptyChangeSetAsStated ==
    (Cs /\ Succeeded /\ Exists(pre.files, ConfigFile) /\ args.content = <<>>) =>
        /\ Exists(files, ConfigFile)
        /\ DictEq(Reread(files), Before)
        /\ ~result.changed

\* C18 amended: when the file exists and the desired content is empty, for
\* both values of override the mapping on disk after the call equals the
\* mapping before it; changed=false is reported when override=false and
\* changed=true when override=true.
C18_EmptyChangeSet ==
    (Cs /\ Succeeded /\ Exists(pre.files, ConfigFile) /\ args.content = <<>>) =>
        /\ Exists(files, ConfigFile)
        /\ DictEq(Reread(files), Before)
        /\ result.changed = args.override

\* an empty content with override=true, written over a document of two keys
C18_Witness ==
    /\ Cs /\ Applied /\ Exists(pre.files, ConfigFile) /\ args.content = <<>>
    /\ args.override /\ result.changed
    /\ Len(Before) = 2

-----------------------------------------------------------------------------
(* C19 *)

\* the document the invocation found, empty when there was no file
Found == IF Exists(pre.files, ConfigFile) THEN Before ELSE <<>>

\* C19: first writer wins.  Every successful non-dry-run reconciliation, at
\* any place of a sequence of them, leaves every key of the document it found
\* in the document; with override=false it leaves each such key its value,
\* whatever the content supplies for it; and a key it introduces gets the
\* value the content gives.  (So over a sequence no key is ever removed, and
\* while every invocation has override=false each key keeps the value of the
\* invocation that introduced it.)
C19_FirstWriterWins ==
    (Cs /\ Applied) =>
        /\ \A k \in DictKeys(Found) :
            /\ DictHas(Reread(files), k)
            /\ ~args.override => DictGet(Reread(files), k) = DictGet(Found, k)
        /\ \A k \in DictKeys(args.content) \ DictKeys(Found) :
            /\ DictHas(Reread(files), k)
            /\ DictGet(Reread(files), k) = DictGet(args.content, k)

\* a second invocation supplies another value for a key and does not get it
C19_Witness ==
    /\ Cs /\ Applied /\ calls = 2 /\ ~args.override
    /\ \E k \in DictKeys(Found) \cap DictKeys(args.content) :
        /\ DictGet(Found, k) # DictGet(args.content, k)
        /\ DictGet(Reread(files), k) = DictGet(Found, k)

-----------------------------------------------------------------------------
(* C20 *)

\* C20: no content is lost.  For every state found and every value of
\* validate, src and dest naming the same path included, after a successful
\* non-dry-run call the destination path exists if the source existed before
\* the call, and it exists if the destination existed before the call.
C20_NeverLosesContent ==
    (Mv /\ Applied) =>
        /\ Exists(pre.files, args.src) => Exists(files, args.dest)
        /\ Exists(pre.files, args.dest) => Exists(files, args.dest)

\* The same, of two different paths: this much the code does.
NeverLosesContentOfDistinctPaths ==
    (Mv /\ Applied /\ args.src # args.dest) =>
        /\ Exists(pre.files, args.src) => Exists(files, args.dest)
        /\ Exists(pre.files, args.dest) => Exists(files, args.dest)

====
